---- MODULE Spec2Model ----
(***************************************************************************)
(* Model of the diff processing and prioritisation engine of git-commit-ai *)
(* (DiffProcessor, utils/diffProcessor.ts) and of the service that drives  *)
(* it (EnhancedOpenAIService.generateCommitMessage).                       *)
(*                                                                         *)
(* A raw diff is a sequence of sections: the pieces into which             *)
(* diff.split(/(?=^diff --git)/m) cuts the text.  A section is described   *)
(* by the features of its text that the code reads: its length, its header *)
(* line, the markers it contains, its '+' and '-' lines and the positions  *)
(* of its newlines and hunk headers.  Paths, summaries and labels are real *)
(* strings; bodies are kept as (prefix length, appended marker pieces).    *)
(*                                                                         *)
(* Spec is one service taking one call after another, ProcessorSpec a     *)
(* DiffProcessor whose processDiff is called directly, ConcurrentSpec one  *)
(* service with two invocations in flight.                                 *)
(***************************************************************************)
EXTENDS Integers, Sequences, FiniteSets, TLC

VARIABLES options, pc, gitDiff, processingStrategy, processedDiff,
          processedInfo, apiCalls, outcome

vars == <<options, pc, gitDiff, processingStrategy, processedDiff,
          processedInfo, apiCalls, outcome>>

\* ------------------------------------------------------------------ bounds

\* Largest number of sections of a raw diff.
MaxSections == 2

\* ------------------------------------------------------- program constants

TruncationMarker == "\n... (truncated)"
MarkerLen == Len(TruncationMarker)
TruncationBuffer == 100
BudgetReserve == 100
MinRemainingSpace == 1000
ImportantPriority == 4
MaxImportantFiles == 5
ExcerptLength == 2000
BasePriority == 3
MinPriority == 1
MaxPriority == 5
LargeChange == 100
SmallChange == 5
ServiceMaxFiles == 100
DefaultMaxFiles == 50
DefaultMaxChunkSize == 50 * 1024
DefaultMaxTotalSize == 500 * 1024
ServiceMaxChunkSize == 50 * 1024
ServiceMaxTotalSize == 400 * 1024
ServiceMaxDirectSize == 100 * 1024
ValidationMaxSize == 10 * 1024 * 1024

Null == [null |-> TRUE]

\* --------------------------------------------------------- string helpers

\* String.prototype.includes
Includes(s, p) ==
    \E i \in 1..(Len(s) - Len(p) + 1) : SubSeq(s, i, i + Len(p) - 1) = p

\* a regular expression of the form /p$/
EndsWith(s, p) ==
    Len(s) >= Len(p) /\ SubSeq(s, Len(s) - Len(p) + 1, Len(s)) = p

RECURSIVE SumSeq(_)
SumSeq(s) == IF s = <<>> THEN 0 ELSE Head(s) + SumSeq(Tail(s))

\* Array.prototype.join on strings
RECURSIVE Join(_, _)
Join(parts, sep) ==
    IF parts = <<>> THEN ""
    ELSE IF Len(parts) = 1 THEN parts[1]
    ELSE parts[1] \o sep \o Join(Tail(parts), sep)

Max(S) == CHOOSE x \in S : \A y \in S : y <= x

\* ------------------------------------------------------------ body texts
\* A body is the first `orig` characters of its section followed by the
\* pieces in `tail`, each the first k characters of the truncation marker.

Content(n) == [orig |-> n, tail |-> <<>>]

ContentLen(c) == c.orig + SumSeq(c.tail)

RECURSIVE CutTail(_, _)
CutTail(t, k) ==
    IF k <= 0 \/ t = <<>> THEN <<>>
    ELSE IF Head(t) >= k THEN <<k>>
    ELSE <<Head(t)>> \o CutTail(Tail(t), k - Head(t))

\* content.substring(0, k)
Substring(c, k) ==
    LET kk == IF k < 0 THEN 0 ELSE k IN
    IF kk >= ContentLen(c) THEN c
    ELSE IF kk <= c.orig THEN [orig |-> kk, tail |-> <<>>]
    ELSE [orig |-> c.orig, tail |-> CutTail(c.tail, kk - c.orig)]

\* content + '\n... (truncated)'
WithMarker(c) == [c EXCEPT !.tail = Append(@, MarkerLen)]

\* ------------------------------------------------------------ raw diffs

Every(first, step, count) == {first + step * k : k \in 0..(count - 1)}

\* A decimal digit, and a number of three digits
Digit(c) == CHOOSE k \in 0..9 : ToString(k) = c

Number(s) ==
    100 * Digit(SubSeq(s, 1, 1)) + 10 * Digit(SubSeq(s, 2, 2))
    + Digit(SubSeq(s, 3, 3))

Pad(n) ==
    IF n < 10 THEN "00" \o ToString(n)
    ELSE IF n < 100 THEN "0" \o ToString(n) ELSE ToString(n)

\* The name of the file section for `path` with the extended header line
\* of `kind` (A 'new file mode', D 'deleted file mode', R 'rename from',
\* M none of them), `plus` lines starting with '+' and `minus` lines
\* starting with '-'.
Written(kind, plus, minus, path) ==
    kind \o " +" \o Pad(plus) \o " -" \o Pad(minus) \o " " \o path

\* Its text: the header line, four lines of extended header and hunk
\* header, then the changed lines; every line after the header line has
\* twenty characters.
WrittenSection(kind, plus, minus, path) ==
    [len |-> 16 + 2 * Len(path) + 20 * (plus + minus + 4),
     hdr |-> "ok", path |-> path,
     newFile |-> kind = "A", deletedFile |-> kind = "D",
     renameFrom |-> kind = "R",
     plus |-> plus, minus |-> minus,
     nl |-> Every(16 + 2 * Len(path), 20, plus + minus + 4),
     hunk |-> {16 + 2 * Len(path) + 60},
     hunkHdr |-> TRUE, blank |-> FALSE, script |-> FALSE]

\* The text of a section, by name.  hdr: "ok" the section starts with a
\* line 'diff --git a/<path> b/<path>'; "bad" it starts with 'diff --git'
\* but the line carries no a/ b/ paths; "none" it is the text before the
\* first file header; "indented" it is such a text whose first line is a
\* file header preceded by blanks.  nl: the indices of its newlines;
\* hunk: the indices where '\n@@' starts; hunkHdr: a line matches
\* /^@@ -\d+,?\d* \+\d+,?\d* @@/; plus/minus: lines starting with '+' (not
\* '+++') and '-' (not '---'); script: it holds a <script>..</script> element.
Section(name) ==
    CASE name = "pkg" ->
           [len |-> 300, hdr |-> "ok", path |-> "package.json",
            newFile |-> FALSE, deletedFile |-> FALSE, renameFrom |-> FALSE,
            plus |-> 2, minus |-> 1,
            nl |-> {40, 70, 90, 110, 130, 180, 230, 280}, hunk |-> {110},
            hunkHdr |-> TRUE, blank |-> FALSE, script |-> FALSE]
      [] name = "test" ->
           [len |-> 1500, hdr |-> "ok", path |-> "src/foo.test.ts",
            newFile |-> FALSE, deletedFile |-> FALSE, renameFrom |-> FALSE,
            plus |-> 30, minus |-> 10,
            nl |-> Every(46, 29, 50), hunk |-> {104, 713},
            hunkHdr |-> TRUE, blank |-> FALSE, script |-> FALSE]
      [] name = "app" ->
           [len |-> 2600, hdr |-> "ok", path |-> "src/app.ts",
            newFile |-> FALSE, deletedFile |-> FALSE, renameFrom |-> FALSE,
            plus |-> 110, minus |-> 5,
            nl |-> Every(36, 20, 129), hunk |-> {96, 1036, 1836, 2316},
            hunkHdr |-> TRUE, blank |-> FALSE, script |-> FALSE]
      [] name = "readme" ->
           [len |-> 1200, hdr |-> "ok", path |-> "README.md",
            newFile |-> TRUE, deletedFile |-> FALSE, renameFrom |-> FALSE,
            plus |-> 40, minus |-> 0,
            nl |-> Every(34, 25, 46), hunk |-> {109},
            hunkHdr |-> TRUE, blank |-> FALSE, script |-> FALSE]
      [] name = "min" ->
           [len |-> 900, hdr |-> "ok", path |-> "dist/app.min.js",
            newFile |-> FALSE, deletedFile |-> FALSE, renameFrom |-> FALSE,
            plus |-> 1, minus |-> 1,
            nl |-> {46, 80, 110, 140, 160, 530}, hunk |-> {140},
            hunkHdr |-> TRUE, blank |-> FALSE, script |-> FALSE]
      [] name = "notes" ->
           [len |-> 700, hdr |-> "ok", path |-> "docs/notes.txt",
            newFile |-> FALSE, deletedFile |-> FALSE, renameFrom |-> TRUE,
            plus |-> 10, minus |-> 0,
            nl |-> Every(44, 40, 16), hunk |-> {},
            hunkHdr |-> FALSE, blank |-> FALSE, script |-> FALSE]
      [] name = "evil" ->
           [len |-> 250, hdr |-> "ok", path |-> "index.html",
            newFile |-> FALSE, deletedFile |-> FALSE, renameFrom |-> FALSE,
            plus |-> 1, minus |-> 0,
            nl |-> {36, 60, 80, 100, 120}, hunk |-> {100},
            hunkHdr |-> TRUE, blank |-> FALSE, script |-> TRUE]
      [] name = "bad" ->
           [len |-> 200, hdr |-> "bad", path |-> "",
            newFile |-> FALSE, deletedFile |-> FALSE, renameFrom |-> FALSE,
            plus |-> 3, minus |-> 2,
            nl |-> {10, 40, 60, 80, 120, 160}, hunk |-> {60},
            hunkHdr |-> TRUE, blank |-> FALSE, script |-> FALSE]
      [] name = "huge" ->
           [len |-> 11000000, hdr |-> "ok", path |-> "data/dump.sql",
            newFile |-> TRUE, deletedFile |-> FALSE, renameFrom |-> FALSE,
            plus |-> 200, minus |-> 0,
            nl |-> Every(42, 50000, 210), hunk |-> {50042},
            hunkHdr |-> TRUE, blank |-> FALSE, script |-> FALSE]
      [] name = "hunks" ->
           [len |-> 700, hdr |-> "none", path |-> "",
            newFile |-> FALSE, deletedFile |-> FALSE, renameFrom |-> FALSE,
            plus |-> 8, minus |-> 4,
            nl |-> Every(15, 30, 20), hunk |-> {345},
            hunkHdr |-> TRUE, blank |-> FALSE, script |-> FALSE]
      [] name = "prose" ->
           [len |-> 600, hdr |-> "none", path |-> "",
            newFile |-> FALSE, deletedFile |-> FALSE, renameFrom |-> FALSE,
            plus |-> 0, minus |-> 1,
            nl |-> {80, 200, 410}, hunk |-> {},
            hunkHdr |-> FALSE, blank |-> FALSE, script |-> FALSE]
      [] name = "blank" ->
           [len |-> 3, hdr |-> "none", path |-> "",
            newFile |-> FALSE, deletedFile |-> FALSE, renameFrom |-> FALSE,
            plus |-> 0, minus |-> 0,
            nl |-> {0, 2}, hunk |-> {},
            hunkHdr |-> FALSE, blank |-> TRUE, script |-> FALSE]
      [] name = "indented" ->
           [len |-> 650, hdr |-> "indented", path |-> "",
            newFile |-> FALSE, deletedFile |-> FALSE, renameFrom |-> FALSE,
            plus |-> 6, minus |-> 6,
            nl |-> Every(30, 31, 20), hunk |-> {},
            hunkHdr |-> FALSE, blank |-> FALSE, script |-> FALSE]
      [] OTHER ->
           WrittenSection(SubSeq(name, 1, 1), Number(SubSeq(name, 4, 6)),
                          Number(SubSeq(name, 9, 11)),
                          SubSeq(name, 13, Len(name)))

FileSections == {"pkg", "test", "app", "readme", "min", "notes", "evil",
                 "bad", "huge"}
LeadingSections == {"hunks", "prose", "blank", "indented"}
SectionNames == FileSections \cup LeadingSections

\* The raw diffs: only the first piece of the split can lack a file header
\* at its start.
RawDiffs ==
    {d \in UNION {[1..n -> SectionNames] : n \in 0..MaxSections} :
        \A i \in 2..Len(d) : d[i] \in FileSections}

\* Written file sections: every change kind and the sizes around the
\* thresholds of the score, for paths that match none, one or several of
\* the patterns of calculatePriority.
Kinds == {"A", "D", "R", "M"}
PlusChoices == {0, 2, 4, 60, 101}
MinusChoices == {0, 1, 3}
ScoredPaths ==
    {"package.json", "foo.test.ts", ".config/README.md", "Dockerfile",
     "src/main.c", "node_modules/lib/package.json", "dist/bundle.min.js",
     "docs/guide.txt", "CHANGELOG.md", "node_modules/lib/test/util.css",
     "crates/core/Cargo.toml"}
WrittenNames ==
    {Written(k, a, m, p) :
        k \in Kinds, a \in PlusChoices, m \in MinusChoices, p \in ScoredPaths}

\* Small changes of package.json and of foo.test.ts
SmallPlusChoices == {0, 2, 6}
SmallMinusChoices == {0, 1, 3}
SmallChanges(path) ==
    {Written(k, a, m, path) :
        k \in Kinds, a \in SmallPlusChoices, m \in SmallMinusChoices}
ManifestAndTestDiffs ==
    UNION {{<<p, t>>, <<t, p>>} :
        p \in SmallChanges("package.json"), t \in SmallChanges("foo.test.ts")}

\* The texts handed to processDiff directly
DirectDiffs ==
    RawDiffs \cup {<<n>> : n \in WrittenNames} \cup ManifestAndTestDiffs

\* gitDiff.length
RawLen(d) == SumSeq([i \in 1..Len(d) |-> Section(d[i]).len])

\* The section table describes texts that exist.
WellFormedSection(s) ==
    /\ s.len > 0
    /\ \A p \in s.nl : 0 <= p /\ p < s.len
    /\ s.hunk \subseteq s.nl
    /\ \A h \in s.hunk : h + 2 < s.len
    /\ s.plus + s.minus <= Cardinality(s.nl) + 1
    /\ s.hdr = "ok" =>
         /\ Len(s.path) > 0
         /\ s.nl # {}
         /\ \A p \in s.nl : p >= 16 + 2 * Len(s.path)
         /\ 16 + 2 * Len(s.path) \in s.nl
    /\ s.hdr \in {"ok", "bad"} => 0 \notin s.nl
    /\ (s.hunkHdr /\ s.hdr \in {"ok", "bad"}) => s.hunk # {}
    /\ s.blank => (s.hdr = "none" /\ ~s.hunkHdr /\ s.plus = 0 /\ s.minus = 0)

\* ----------------------------------------------------------- validation

\* input.trim().length === 0
TrimmedEmpty(d) == \A i \in 1..Len(d) : Section(d[i]).blank

\* /^diff --git/m.test(trimmedInput)
HasGitDiffHeader(d) ==
    \/ \E i \in 1..Len(d) : Section(d[i]).hdr \in {"ok", "bad"}
    \/ (Len(d) > 0 /\ Section(d[1]).hdr = "indented")

\* /^@@ -\d+,?\d* \+\d+,?\d* @@/m.test(trimmedInput)
HasHunkHeaders(d) == \E i \in 1..Len(d) : Section(d[i]).hunkHdr

\* containsSuspiciousContent(trimmedInput): a complete script element is
\* matched by the first pattern of both pattern lists.
ContainsSuspiciousContent(d) == \E i \in 1..Len(d) : Section(d[i]).script

\* variant: the check for the primary indicators is left out
MutMarkerErrors(d) == <<>>

MarkerErrors(d) ==
    IF ~HasGitDiffHeader(d) /\ ~HasHunkHeaders(d)
    THEN <<"Input does not appear to be a valid git diff (missing diff --git header or @@ hunk headers)">>
    ELSE <<>>

SuspiciousErrors(d) ==
    IF ContainsSuspiciousContent(d)
    THEN <<"Input contains potentially malicious content">>
    ELSE <<>>

\* validateGitDiff(input, {maxSize, allowBinaryFiles: true})
ValidateGitDiff(d, maxSize) ==
    IF d = <<>>
    THEN [isValid |-> FALSE, errors |-> <<"Input must be a non-empty string">>]
    ELSE IF maxSize # 0 /\ RawLen(d) > maxSize
    THEN [isValid |-> FALSE,
          errors |-> <<"Input size exceeds maximum allowed size">>]
    ELSE IF TrimmedEmpty(d)
    THEN [isValid |-> FALSE,
          errors |-> <<"Input cannot be empty or contain only whitespace">>]
    ELSE LET errors == MarkerErrors(d) \o SuspiciousErrors(d)
         IN [isValid |-> Len(errors) = 0, errors |-> errors]

\* --------------------------------------------------------- DiffProcessor

\* constructor: options.x || default (0 stands for an absent option)
DiffProcessorOptions(o) ==
    [maxChunkSize |-> IF o.maxChunkSize # 0 THEN o.maxChunkSize
                      ELSE DefaultMaxChunkSize,
     maxTotalSize |-> IF o.maxTotalSize # 0 THEN o.maxTotalSize
                      ELSE DefaultMaxTotalSize,
     maxFiles     |-> IF o.maxFiles # 0 THEN o.maxFiles ELSE DefaultMaxFiles]

\* content.lastIndexOf(pattern, from), given the indices where the pattern
\* occurs
LastIndexOf(positions, from) ==
    LET f == IF from < 0 THEN 0 ELSE from
        before == {q \in positions : q <= f}
    IN IF before = {} THEN -1 ELSE Max(before)

\* variant: the nearest hunk header, else the nearest newline, whatever
\* their distance from the limit
MutFindGoodTruncationPoint(s, maxLength) ==
    IF LastIndexOf(s.hunk, maxLength - TruncationBuffer) >= 0
    THEN LastIndexOf(s.hunk, maxLength - TruncationBuffer)
    ELSE LastIndexOf(s.nl, maxLength - TruncationBuffer)

FindGoodTruncationPoint(s, maxLength) ==
    LET truncateAt == maxLength - TruncationBuffer
        hunkBoundary == LastIndexOf(s.hunk, truncateAt)
        lineBoundary == LastIndexOf(s.nl, truncateAt)
    IN IF 10 * hunkBoundary > 7 * truncateAt THEN hunkBoundary
       ELSE IF 10 * lineBoundary > 8 * truncateAt THEN lineBoundary
       ELSE truncateAt

ChangeType(s) ==
    IF s.newFile THEN "added"
    ELSE IF s.deletedFile THEN "deleted"
    ELSE IF s.renameFrom THEN "renamed"
    ELSE "modified"

\* variant: only the upper limit is applied
MutClamp(p) == IF p > MaxPriority THEN MaxPriority ELSE p

\* Math.max(1, Math.min(5, priority))
Clamp(p) ==
    IF p > MaxPriority THEN MaxPriority
    ELSE IF p < MinPriority THEN MinPriority ELSE p

\* variant: the size of a change is its net number of lines
MutNetPriority(filePath, changeType, linesAdded, linesDeleted) ==
    LET manifest == IF Includes(filePath, "package.json")
                       \/ Includes(filePath, "Cargo.toml") THEN 1 ELSE 0
        docs     == IF Includes(filePath, "README")
                       \/ Includes(filePath, "CHANGELOG") THEN 1 ELSE 0
        config   == IF Includes(filePath, ".config")
                       \/ Includes(filePath, "Dockerfile") THEN 1 ELSE 0
        source   == IF \E e \in {".ts", ".js", ".py", ".rs", ".go", ".java",
                                 ".cpp", ".c"} : EndsWith(filePath, e)
                    THEN 1 ELSE 0
        tests    == IF Includes(filePath, "test") \/ Includes(filePath, "spec")
                       \/ Includes(filePath, "__tests__")
                       \/ Includes(filePath, ".test.") THEN 1 ELSE 0
        vendored == IF Includes(filePath, "node_modules")
                       \/ Includes(filePath, "dist/")
                       \/ Includes(filePath, "build/")
                       \/ Includes(filePath, ".min.") THEN 2 ELSE 0
        netChanges == linesAdded - linesDeleted
        size     == IF netChanges > LargeChange THEN 1
                    ELSE IF netChanges < SmallChange THEN -1 ELSE 0
        fresh    == IF changeType \in {"added", "deleted"} THEN 1 ELSE 0
    IN Clamp(BasePriority + manifest + docs + config + source - tests
             - vendored + size + fresh)

\* variant: the three groups of important files add one point together
MutCalculatePriority(filePath, changeType, linesAdded, linesDeleted) ==
    Clamp(BasePriority
          + (IF \E p \in {"package.json", "Cargo.toml", "README", "CHANGELOG",
                           ".config", "Dockerfile"} : Includes(filePath, p)
             THEN 1 ELSE 0)
          + (IF \E e \in {".ts", ".js", ".py", ".rs", ".go", ".java",
                           ".cpp", ".c"} : EndsWith(filePath, e)
             THEN 1 ELSE 0)
          - (IF \E p \in {"test", "spec", "__tests__", ".test."} :
                  Includes(filePath, p) THEN 1 ELSE 0)
          - (IF \E p \in {"node_modules", "dist/", "build/", ".min."} :
                  Includes(filePath, p) THEN 2 ELSE 0)
          + (IF linesAdded + linesDeleted > LargeChange THEN 1
             ELSE IF linesAdded + linesDeleted < SmallChange THEN -1 ELSE 0)
          + (IF changeType \in {"added", "deleted"} THEN 1 ELSE 0))

CalculatePriority(filePath, changeType, linesAdded, linesDeleted) ==
    LET manifest == IF Includes(filePath, "package.json")
                       \/ Includes(filePath, "Cargo.toml") THEN 1 ELSE 0
        docs     == IF Includes(filePath, "README")
                       \/ Includes(filePath, "CHANGELOG") THEN 1 ELSE 0
        config   == IF Includes(filePath, ".config")
                       \/ Includes(filePath, "Dockerfile") THEN 1 ELSE 0
        source   == IF \E e \in {".ts", ".js", ".py", ".rs", ".go", ".java",
                                 ".cpp", ".c"} : EndsWith(filePath, e)
                    THEN 1 ELSE 0
        tests    == IF Includes(filePath, "test") \/ Includes(filePath, "spec")
                       \/ Includes(filePath, "__tests__")
                       \/ Includes(filePath, ".test.") THEN 1 ELSE 0
        vendored == IF Includes(filePath, "node_modules")
                       \/ Includes(filePath, "dist/")
                       \/ Includes(filePath, "build/")
                       \/ Includes(filePath, ".min.") THEN 2 ELSE 0
        totalChanges == linesAdded + linesDeleted
        size     == IF totalChanges > LargeChange THEN 1
                    ELSE IF totalChanges < SmallChange THEN -1 ELSE 0
        fresh    == IF changeType \in {"added", "deleted"} THEN 1 ELSE 0
    IN Clamp(BasePriority + manifest + docs + config + source - tests
             - vendored + size + fresh)

\* parseFileChunk lines 327-332
TruncateChunk(s, maxChunkSize) ==
    IF s.len > maxChunkSize
    THEN WithMarker(Substring(Content(s.len),
                              FindGoodTruncationPoint(s, maxChunkSize)))
    ELSE Content(s.len)

\* parseFileChunk(fileBlock), for the i-th piece of the split.  `section`
\* records which piece the chunk was parsed from.
ParseFileChunk(name, i, opts) ==
    LET s == Section(name) IN
    IF s.hdr # "ok" THEN Null
    ELSE [filePath     |-> s.path,
          changeType   |-> ChangeType(s),
          content      |-> TruncateChunk(s, opts.maxChunkSize),
          linesAdded   |-> s.plus,
          linesDeleted |-> s.minus,
          priority     |-> CalculatePriority(s.path, ChangeType(s),
                                             s.plus, s.minus),
          section      |-> i]

\* variant: the loop stops once the limit is exceeded
RECURSIVE MutSplitFrom(_, _, _, _)
MutSplitFrom(d, i, chunks, opts) ==
    IF i > Len(d) THEN chunks
    ELSE IF ParseFileChunk(d[i], i, opts) = Null
    THEN MutSplitFrom(d, i + 1, chunks, opts)
    ELSE IF Len(chunks) + 1 > opts.maxFiles
    THEN Append(chunks, ParseFileChunk(d[i], i, opts))
    ELSE MutSplitFrom(d, i + 1, Append(chunks, ParseFileChunk(d[i], i, opts)),
                      opts)

RECURSIVE SplitFrom(_, _, _, _)
SplitFrom(d, i, chunks, opts) ==
    IF i > Len(d) THEN chunks
    ELSE LET chunk == ParseFileChunk(d[i], i, opts)
             pushed == IF chunk # Null THEN Append(chunks, chunk) ELSE chunks
         IN IF Len(pushed) >= opts.maxFiles THEN pushed
            ELSE SplitFrom(d, i + 1, pushed, opts)

SplitIntoChunks(d, opts) == SplitFrom(d, 1, <<>>, opts)

\* Array.prototype.sort is stable: a chunk goes after every chunk already
\* placed that the comparator does not order after it.
\* variant: a comparator that also moves a chunk before its equals
MutComesBefore(a, b) == a.priority >= b.priority

ComesBefore(a, b) == a.priority > b.priority

RECURSIVE InsertSorted(_, _)
InsertSorted(sorted, c) ==
    IF sorted = <<>> THEN <<c>>
    ELSE IF ComesBefore(c, Head(sorted)) THEN <<c>> \o sorted
    ELSE <<Head(sorted)>> \o InsertSorted(Tail(sorted), c)

RECURSIVE SortFrom(_, _, _)
SortFrom(chunks, i, sorted) ==
    IF i > Len(chunks) THEN sorted
    ELSE SortFrom(chunks, i + 1, InsertSorted(sorted, chunks[i]))

\* variant: the chunks stay in the order of the raw diff
MutPrioritizeChunks(chunks) == chunks

PrioritizeChunks(chunks) == SortFrom(chunks, 1, <<>>)

\* variant: the size of the chunk itself is not counted
MutFits(currentSize, chunk, maxTotalSize) == currentSize <= maxTotalSize

\* variant: the budget must not be reached
MutStrictFits(currentSize, chunk, maxTotalSize) ==
    currentSize + ContentLen(chunk.content) < maxTotalSize

Fits(currentSize, chunk, maxTotalSize) ==
    currentSize + ContentLen(chunk.content) <= maxTotalSize

\* variant: the truncated copy gets no marker
MutTruncatedCopy(chunk, remainingSpace) ==
    [chunk EXCEPT !.content =
        Substring(chunk.content, remainingSpace - BudgetReserve)]

\* variant: the copy counts no lines, as if counted after the cut
MutCountedCopy(chunk, remainingSpace) ==
    [chunk EXCEPT
        !.content = WithMarker(Substring(chunk.content,
                                         remainingSpace - BudgetReserve)),
        !.linesAdded = 0, !.linesDeleted = 0]

\* selectMostImportantChunks lines 412-420
TruncatedCopy(chunk, remainingSpace) ==
    [chunk EXCEPT !.content =
        WithMarker(Substring(chunk.content, remainingSpace - BudgetReserve))]

\* variant: a chunk that does not fit is skipped and the walk goes on
RECURSIVE MutSelectFrom(_, _, _, _, _)
MutSelectFrom(chunks, i, selected, currentSize, maxTotalSize) ==
    IF i > Len(chunks) THEN selected
    ELSE IF Fits(currentSize, chunks[i], maxTotalSize)
    THEN MutSelectFrom(chunks, i + 1, Append(selected, chunks[i]),
                       currentSize + ContentLen(chunks[i].content),
                       maxTotalSize)
    ELSE MutSelectFrom(chunks, i + 1, selected, currentSize, maxTotalSize)

RECURSIVE SelectFrom(_, _, _, _, _)
SelectFrom(chunks, i, selected, currentSize, maxTotalSize) ==
    IF i > Len(chunks) THEN selected
    ELSE IF Fits(currentSize, chunks[i], maxTotalSize)
    THEN SelectFrom(chunks, i + 1, Append(selected, chunks[i]),
                    currentSize + ContentLen(chunks[i].content), maxTotalSize)
    ELSE LET remainingSpace == maxTotalSize - currentSize
         IN IF remainingSpace > MinRemainingSpace
            THEN Append(selected, TruncatedCopy(chunks[i], remainingSpace))
            ELSE selected

SelectMostImportantChunks(chunks, opts) ==
    SelectFrom(chunks, 1, <<>>, 0, opts.maxTotalSize)

CountType(chunks, t) ==
    Cardinality({i \in 1..Len(chunks) : chunks[i].changeType = t})

TotalLinesAdded(chunks) ==
    SumSeq([i \in 1..Len(chunks) |-> chunks[i].linesAdded])

TotalLinesDeleted(chunks) ==
    SumSeq([i \in 1..Len(chunks) |-> chunks[i].linesDeleted])

GenerateSummary(chunks) ==
    LET part(t) == IF CountType(chunks, t) # 0
                   THEN <<ToString(CountType(chunks, t)) \o " " \o t>>
                   ELSE <<>>
        parts == <<ToString(Len(chunks)) \o " files changed">>
                 \o part("added") \o part("deleted") \o part("modified")
                 \o part("renamed")
                 \o <<"+" \o ToString(TotalLinesAdded(chunks)) \o "/-"
                      \o ToString(TotalLinesDeleted(chunks)) \o " lines">>
    IN Join(parts, ", ")

\* variant: the selected chunks are counted
MutTotalFiles(chunks, selectedChunks) == Len(selectedChunks)

TotalFiles(chunks, selectedChunks) == Len(chunks)

IsTruncated(chunks, selectedChunks) == Len(selectedChunks) < Len(chunks)

\* processDiff lines 264-271
ProcessedDiff(chunks, selectedChunks) ==
    [chunks            |-> selectedChunks,
     summary           |-> GenerateSummary(chunks),
     totalFiles        |-> TotalFiles(chunks, selectedChunks),
     totalLinesAdded   |-> TotalLinesAdded(chunks),
     totalLinesDeleted |-> TotalLinesDeleted(chunks),
     isTruncated       |-> IsTruncated(chunks, selectedChunks)]

\* processDiff lines 262-271, given the array that prioritizeChunks has
\* sorted in place: the summary and the totals are taken over that array.
SelectAndReport(chunks, opts) ==
    ProcessedDiff(chunks, SelectMostImportantChunks(chunks, opts))

\* processDiff(diff)
ProcessDiff(d, opts) ==
    SelectAndReport(PrioritizeChunks(SplitIntoChunks(d, opts)), opts)

\* ------------------------------------------------- EnhancedOpenAIService

\* constructor.  In the options 0 stands for an absent size and
\* "undefined" for an absent flag.
ServiceOptions(o) ==
    [maxDirectSize |-> IF o.maxDirectSize # 0 THEN o.maxDirectSize
                       ELSE ServiceMaxDirectSize,
     enableSummarization |-> IF o.enableSummarization = "undefined" THEN TRUE
                             ELSE o.enableSummarization = "true",
     processor |-> DiffProcessorOptions(
        [maxChunkSize |-> IF o.maxChunkSize # 0 THEN o.maxChunkSize
                          ELSE ServiceMaxChunkSize,
         maxTotalSize |-> IF o.maxTotalSize # 0 THEN o.maxTotalSize
                          ELSE ServiceMaxTotalSize,
         maxFiles     |-> ServiceMaxFiles])]

\* variant: the trimmed input is forwarded
MutRawPayload(d) ==
    [form |-> "raw",
     raw |-> SelectSeq(d, LAMBDA n : ~Section(n).blank),
     head |-> "", files |-> <<>>, sep |-> "", tail |-> ""]

\* A payload: `head`, then the entries of `files` (label, body, suffix)
\* joined by `sep`, then `tail`; form "raw" is the raw diff itself.
RawPayload(d) ==
    [form |-> "raw", raw |-> d, head |-> "", files |-> <<>>, sep |-> "",
     tail |-> ""]

\* processedDiff.length
PayloadLen(p) ==
    IF p.form = "raw" THEN RawLen(p.raw)
    ELSE Len(p.head)
         + SumSeq([i \in 1..Len(p.files) |->
                     Len(p.files[i].label) + ContentLen(p.files[i].content)
                     + Len(p.files[i].suffix)])
         + (IF Len(p.files) > 1 THEN (Len(p.files) - 1) * Len(p.sep) ELSE 0)
         + Len(p.tail)

CreateChunkedDiff(info) ==
    [form |-> "chunked", raw |-> <<>>,
     head |-> "DIFF SUMMARY: " \o info.summary \o "\n"
              \o "Files processed: " \o ToString(Len(info.chunks)) \o "/"
              \o ToString(info.totalFiles) \o "\n"
              \o (IF info.isTruncated
                  THEN "Note: Some files were truncated due to size limits.\n"
                  ELSE "")
              \o "\n---\n\n",
     files |-> [i \in 1..Len(info.chunks) |->
        LET chunk == info.chunks[i] IN
        [label   |-> "File: " \o chunk.filePath \o " (" \o chunk.changeType
                     \o ", +" \o ToString(chunk.linesAdded) \o "/-"
                     \o ToString(chunk.linesDeleted) \o " lines, priority: "
                     \o ToString(chunk.priority) \o ")\n",
         content |-> chunk.content,
         suffix  |-> "",
         section |-> chunk.section]],
     sep |-> "\n\n---\n\n",
     tail |-> ""]

\* .slice(0, n)
Slice(seq, n) == SubSeq(seq, 1, IF Len(seq) < n THEN Len(seq) ELSE n)

IsImportant(chunk) == chunk.priority >= ImportantPriority

\* variant: the excerpts are not filtered by priority
MutImportantChunks(chunks) == Slice(chunks, MaxImportantFiles)

ImportantChunks(chunks) == Slice(SelectSeq(chunks, IsImportant), MaxImportantFiles)

CreateSummarizedDiff(info) ==
    LET filesSummary == Join([i \in 1..Len(info.chunks) |->
            info.chunks[i].filePath \o ": " \o info.chunks[i].changeType
            \o " (+" \o ToString(info.chunks[i].linesAdded) \o "/-"
            \o ToString(info.chunks[i].linesDeleted) \o ")"], "\n")
        important == ImportantChunks(info.chunks)
    IN [form |-> "summarized", raw |-> <<>>,
        head |-> "LARGE DIFF SUMMARY (" \o ToString(info.totalFiles)
                 \o " files, " \o ToString(info.totalLinesAdded) \o "+ "
                 \o ToString(info.totalLinesDeleted) \o "- lines)"
                 \o "\n\nFILES CHANGED:\n" \o filesSummary
                 \o "\n\nKEY CHANGES (most important files):\n",
        files |-> [i \in 1..Len(important) |->
            [label   |-> important[i].filePath \o ":\n",
             content |-> Substring(important[i].content, ExcerptLength),
             suffix  |-> "...",
             section |-> important[i].section]],
        sep |-> "\n\n",
        tail |-> "\n\nNote: This is a summarized view of a large changeset. Full details were truncated."]

\* variant: strict comparison
MutIsDirect(originalSize, maxDirectSize) == originalSize < maxDirectSize

IsDirect(originalSize, maxDirectSize) == originalSize <= maxDirectSize

\* variant: the enableSummarization option is ignored
MutUseSummary(enableSummarization, info) == info.isTruncated

UseSummary(enableSummarization, info) ==
    enableSummarization /\ info.isTruncated

\* variant: a result from which units were dropped is refused as too large
MutPrepareLarge(info, enableSummarization) ==
    IF info.isTruncated
    THEN [processingStrategy |-> "too large",
          processedDiff      |-> Null,
          processedInfo      |-> info]
    ELSE [processingStrategy |-> "chunked",
          processedDiff      |-> CreateChunkedDiff(info),
          processedInfo      |-> info]

\* generateCommitMessage lines 96-104
PrepareLarge(info, enableSummarization) ==
    IF UseSummary(enableSummarization, info)
    THEN [processingStrategy |-> "summarized",
          processedDiff      |-> CreateSummarizedDiff(info),
          processedInfo      |-> info]
    ELSE [processingStrategy |-> "chunked",
          processedDiff      |-> CreateChunkedDiff(info),
          processedInfo      |-> info]

\* generateCommitMessage lines 82-105: the strategy, the payload and the
\* processing result
Prepare(d, o) ==
    IF IsDirect(RawLen(d), o.maxDirectSize)
    THEN [processingStrategy |-> "direct",
          processedDiff      |-> RawPayload(d),
          processedInfo      |-> Null]
    ELSE PrepareLarge(ProcessDiff(d, o.processor), o.enableSummarization)

\* variant: no fallback value
MutOrElse(a, b) == a

\* a || b on numbers
OrElse(a, b) == IF a # 0 THEN a ELSE b

\* generateCommitMessage lines 141-148
ProcessingInfo(d, strategy, payload, info) ==
    [originalSize       |-> RawLen(d),
     processedSize      |-> PayloadLen(payload),
     filesAnalyzed      |-> IF info = Null THEN 1
                            ELSE OrElse(Len(info.chunks), 1),
     totalFiles         |-> IF info = Null THEN 1
                            ELSE OrElse(info.totalFiles, 1),
     wasTruncated       |-> IF info = Null THEN FALSE ELSE info.isTruncated,
     processingStrategy |-> strategy]

\* ------------------------------------------------------------- behaviour

MaxDirectChoices == {0, 500}
MaxChunkChoices == {0, 10, 1300}
MaxTotalChoices == {0, 900, 2000, 3500}
EnableChoices == {"undefined", "true", "false"}

OptionChoices ==
    [maxDirectSize : MaxDirectChoices, maxChunkSize : MaxChunkChoices,
     maxTotalSize : MaxTotalChoices, enableSummarization : EnableChoices]

\* what the generation service answers: a completion, a completion
\* without content, or an error
ApiAnswers == {"completion", "empty", "context_length_exceeded", "error"}

Init ==
    /\ options \in {ServiceOptions(o) : o \in OptionChoices}
    /\ pc = "idle"
    /\ gitDiff = <<>>
    /\ processingStrategy = "direct"
    /\ processedDiff = Null
    /\ processedInfo = Null
    /\ apiCalls = 0
    /\ outcome = Null

\* generateCommitMessage lines 71-80: the validation fails
Reject(d) ==
    /\ pc = "idle"
    /\ \E validation \in {ValidateGitDiff(d, ValidationMaxSize)} :
       /\ ~validation.isValid
       /\ outcome' = [error |-> "Invalid git diff: "
                                \o Join(validation.errors, ", ")]
    /\ pc' = "thrown"
    /\ gitDiff' = d
    /\ UNCHANGED <<options, processingStrategy, processedDiff, processedInfo,
                   apiCalls>>

\* generateCommitMessage lines 71-125, up to the await of the completion
Request(d) ==
    /\ pc = "idle"
    /\ ValidateGitDiff(d, ValidationMaxSize).isValid
    /\ \E prepared \in {Prepare(d, options)} :
       /\ processingStrategy' = prepared.processingStrategy
       /\ processedDiff' = prepared.processedDiff
       /\ processedInfo' = prepared.processedInfo
    /\ gitDiff' = d
    /\ apiCalls' = apiCalls + 1
    /\ pc' = "awaiting"
    /\ UNCHANGED <<options, outcome>>

\* generateCommitMessage lines 127-149: the completion arrives
Respond ==
    /\ pc = "awaiting"
    /\ outcome' = [processingInfo |->
                     ProcessingInfo(gitDiff, processingStrategy,
                                    processedDiff, processedInfo)]
    /\ pc' = "returned"
    /\ UNCHANGED <<options, gitDiff, processingStrategy, processedDiff,
                   processedInfo, apiCalls>>

\* generateCommitMessage lines 127-130 and 150-158: no content, or the
\* client throws
Fail(answer) ==
    /\ pc = "awaiting"
    /\ outcome' = [error |->
          CASE answer = "empty" -> "No response from OpenAI API"
            [] answer = "context_length_exceeded" ->
                 "The git diff is too large even after processing. Please split into smaller commits."
            [] OTHER -> "error"]
    /\ pc' = "thrown"
    /\ UNCHANGED <<options, gitDiff, processingStrategy, processedDiff,
                   processedInfo, apiCalls>>

\* the call is over; the service takes the next one
Finish ==
    /\ pc \in {"returned", "thrown"}
    /\ pc' = "idle"
    /\ gitDiff' = <<>>
    /\ processingStrategy' = "direct"
    /\ processedDiff' = Null
    /\ processedInfo' = Null
    /\ apiCalls' = 0
    /\ outcome' = Null
    /\ UNCHANGED options

\* A change of many files: six small sections of priority 4 or more, then
\* two sections of lower priority.
ManyFiles ==
    <<Written("M", 6, 3, "package.json"),
      Written("M", 6, 3, ".config/README.md"),
      Written("M", 6, 3, "Dockerfile"),
      Written("M", 6, 3, "src/main.c"),
      Written("M", 6, 3, "CHANGELOG.md"),
      Written("M", 6, 3, "crates/core/Cargo.toml"),
      "test", "notes">>

\* the diffs given to generateCommitMessage
ServiceDiffs == RawDiffs \cup {ManyFiles}

Next ==
    \/ \E d \in ServiceDiffs : Reject(d)
    \/ \E d \in ServiceDiffs : Request(d)
    \/ Respond
    \/ \E answer \in ApiAnswers \ {"completion"} : Fail(answer)
    \/ Finish

Spec == Init /\ [][Next]_vars

TypeOK ==
    /\ pc \in {"idle", "awaiting", "returned", "thrown"}
    /\ gitDiff \in ServiceDiffs
    /\ apiCalls \in 0..1

SectionsWellFormed ==
    \A n \in SectionNames \cup WrittenNames \cup SmallChanges("package.json")
            \cup SmallChanges("foo.test.ts") :
        WellFormedSection(Section(n))

\* ------------------------------------------- calls in flight together
\* Several invocations of generateCommitMessage on one service: each has
\* its own gitDiff, processingStrategy, processedDiff and processedInfo
\* (parameter and let/const variables of the invocation); the variables
\* are functions from the invocation to its value.  An invocation gives
\* up control at its awaits only.

Calls == {1, 2}

ConcurrentChoices ==
    [maxDirectSize : {500}, maxChunkSize : {0, 1300}, maxTotalSize : {2000},
     enableSummarization : {"true", "false"}]

ConcurrentDiffs ==
    {d \in RawDiffs : Len(d) <= 1} \cup {<<"test", "test">>, <<"pkg", "app">>}

\* invocation c moves on: its position, its argument, its outcome
Store(frames, c, value) == [frames EXCEPT ![c] = value]

\* variant: the value is kept in a field of the service, one for all
\* invocations
MutAssign(locals, c, value) == [k \in Calls |-> value]

\* assignment to one of the variables processingStrategy, processedDiff
\* and processedInfo, declared with let in the body (lines 83-85)
Assign(locals, c, value) == [locals EXCEPT ![c] = value]

ConcurrentInit ==
    /\ options \in {ServiceOptions(o) : o \in ConcurrentChoices}
    /\ pc = [c \in Calls |-> "idle"]
    /\ gitDiff = [c \in Calls |-> <<>>]
    /\ processingStrategy = [c \in Calls |-> "direct"]
    /\ processedDiff = [c \in Calls |-> Null]
    /\ processedInfo = [c \in Calls |-> Null]
    /\ apiCalls = [c \in Calls |-> 0]
    /\ outcome = [c \in Calls |-> Null]

\* generateCommitMessage lines 71-80: the validation fails
CallReject(c, d) ==
    /\ pc[c] = "idle"
    /\ \E validation \in {ValidateGitDiff(d, ValidationMaxSize)} :
       /\ ~validation.isValid
       /\ outcome' = Store(outcome, c,
                           [error |-> "Invalid git diff: "
                                      \o Join(validation.errors, ", ")])
    /\ pc' = Store(pc, c, "thrown")
    /\ gitDiff' = Store(gitDiff, c, d)
    /\ UNCHANGED <<options, processingStrategy, processedDiff, processedInfo,
                   apiCalls>>

\* generateCommitMessage lines 71-98: up to the first await, which is
\* that of createSummarizedDiff under the summarized strategy and that of
\* the completion otherwise
CallRequest(c, d) ==
    /\ pc[c] = "idle"
    /\ ValidateGitDiff(d, ValidationMaxSize).isValid
    /\ \E prepared \in {Prepare(d, options)} :
       /\ processingStrategy' =
             Assign(processingStrategy, c, prepared.processingStrategy)
       /\ processedInfo' = Assign(processedInfo, c, prepared.processedInfo)
       /\ IF prepared.processingStrategy = "summarized"
          THEN /\ pc' = Store(pc, c, "summarizing")
               /\ UNCHANGED <<processedDiff, apiCalls>>
          ELSE /\ processedDiff' =
                     Assign(processedDiff, c, prepared.processedDiff)
               /\ apiCalls' = Store(apiCalls, c, apiCalls[c] + 1)
               /\ pc' = Store(pc, c, "awaiting")
    /\ gitDiff' = Store(gitDiff, c, d)
    /\ UNCHANGED <<options, outcome>>

\* generateCommitMessage lines 98-125: the summary is assigned and the
\* completion is requested
CallResume(c) ==
    /\ pc[c] = "summarizing"
    /\ processedDiff' =
          Assign(processedDiff, c, CreateSummarizedDiff(processedInfo[c]))
    /\ apiCalls' = Store(apiCalls, c, apiCalls[c] + 1)
    /\ pc' = Store(pc, c, "awaiting")
    /\ UNCHANGED <<options, gitDiff, processingStrategy, processedInfo,
                   outcome>>

\* generateCommitMessage lines 127-149: the completion arrives
CallRespond(c) ==
    /\ pc[c] = "awaiting"
    /\ outcome' = Store(outcome, c,
          [processingInfo |->
             ProcessingInfo(gitDiff[c], processingStrategy[c],
                            processedDiff[c], processedInfo[c])])
    /\ pc' = Store(pc, c, "returned")
    /\ UNCHANGED <<options, gitDiff, processingStrategy, processedDiff,
                   processedInfo, apiCalls>>

\* generateCommitMessage lines 127-130 and 150-158
CallFail(c) ==
    /\ pc[c] = "awaiting"
    /\ outcome' = Store(outcome, c, [error |-> "error"])
    /\ pc' = Store(pc, c, "thrown")
    /\ UNCHANGED <<options, gitDiff, processingStrategy, processedDiff,
                   processedInfo, apiCalls>>

\* the invocation is over; its variables are gone
CallFinish(c) ==
    /\ pc[c] \in {"returned", "thrown"}
    /\ pc' = Store(pc, c, "idle")
    /\ gitDiff' = Store(gitDiff, c, <<>>)
    /\ processingStrategy' = Assign(processingStrategy, c, "direct")
    /\ processedDiff' = Assign(processedDiff, c, Null)
    /\ processedInfo' = Assign(processedInfo, c, Null)
    /\ apiCalls' = Store(apiCalls, c, 0)
    /\ outcome' = Store(outcome, c, Null)
    /\ UNCHANGED options

ConcurrentNext ==
    \E c \in Calls :
        \/ \E d \in ConcurrentDiffs : CallReject(c, d)
        \/ \E d \in ConcurrentDiffs : CallRequest(c, d)
        \/ CallResume(c)
        \/ CallRespond(c)
        \/ CallFail(c)
        \/ CallFinish(c)

ConcurrentSpec == ConcurrentInit /\ [][ConcurrentNext]_vars

\* ----------------------------------------- the DiffProcessor used directly

ProcessorMaxChunkChoices == {0, 800}
ProcessorMaxTotalChoices == {2000}
MaxFilesChoices == {0, 1, 2}

ProcessorChoices ==
    [maxChunkSize : ProcessorMaxChunkChoices,
     maxTotalSize : ProcessorMaxTotalChoices, maxFiles : MaxFilesChoices]

\* new DiffProcessor(options)
ProcessorInit ==
    /\ options \in {[processor |-> DiffProcessorOptions(o)] :
                       o \in ProcessorChoices}
    /\ pc = "idle"
    /\ gitDiff = <<>>
    /\ processingStrategy = "direct"
    /\ processedDiff = Null
    /\ processedInfo = Null
    /\ apiCalls = 0
    /\ outcome = Null

\* diffProcessor.processDiff(diff)
ProcessDirect(d) ==
    /\ pc = "idle"
    /\ gitDiff' = d
    /\ processedInfo' = ProcessDiff(d, options.processor)
    /\ pc' = "returned"
    /\ UNCHANGED <<options, processingStrategy, processedDiff, apiCalls,
                   outcome>>

ProcessorNext ==
    \/ \E d \in DirectDiffs : ProcessDirect(d)
    \/ Finish

ProcessorSpec == ProcessorInit /\ [][ProcessorNext]_vars

\* ---------------------------------------------------------------- claims

\* The units the Splitter yields for the raw diff of the current call.
SplitterUnits == SplitIntoChunks(gitDiff, options.processor)

\* the processor has run for the current call
Processed == pc = "awaiting" /\ processedInfo # Null

\* the body is the whole text of its file section
Untouched(chunk) == chunk.content = Content(Section(gitDiff[chunk.section]).len)

\* x is a prefix of y
IsPrefix(x, y) == x = Substring(y, ContentLen(x))

\* x is a prefix of y followed by the truncation marker
IsMarkedPrefix(x, y) ==
    /\ x.tail # <<>>
    /\ x.tail[Len(x.tail)] = MarkerLen
    /\ IsPrefix([x EXCEPT !.tail = SubSeq(@, 1, Len(@) - 1)], y)

C2_Budget ==
    Processed =>
      SumSeq([i \in 1..Len(processedInfo.chunks) |->
                ContentLen(processedInfo.chunks[i].content)])
        <= options.processor.maxTotalSize + MarkerLen

\* the last selected unit is a copy the Budgeter truncated
C2_Witness ==
    /\ Processed
    /\ Len(processedInfo.chunks) > 0
    /\ \E last \in {processedInfo.chunks[Len(processedInfo.chunks)]} :
         \E u \in {ParseFileChunk(gitDiff[last.section], last.section,
                                  options.processor)} :
           /\ last.content # u.content
           /\ IsMarkedPrefix(last.content, u.content)

\* C3: the selected units are in non-increasing priority order, and units
\* of equal priority keep the order of their file sections in the raw diff.
C3_Ordering ==
    Processed =>
      \A i, j \in 1..Len(processedInfo.chunks) :
        i < j =>
          \/ processedInfo.chunks[i].priority > processedInfo.chunks[j].priority
          \/ /\ processedInfo.chunks[i].priority = processedInfo.chunks[j].priority
             /\ processedInfo.chunks[i].section < processedInfo.chunks[j].section

\* two selected units have the same priority
C3_Witness ==
    /\ Processed
    /\ \E i, j \in 1..Len(processedInfo.chunks) :
         /\ i < j
         /\ processedInfo.chunks[i].priority = processedInfo.chunks[j].priority
         /\ processedInfo.chunks[i].filePath # processedInfo.chunks[j].filePath

\* C4: isTruncated is true iff a unit of the Splitter is absent from the
\* selected units or a selected unit's body is not the whole text of its
\* file section.
C4_TruncationFlag ==
    Processed =>
      (processedInfo.isTruncated <=>
         \/ Len(processedInfo.chunks) < Len(SplitterUnits)
         \/ \E i \in 1..Len(processedInfo.chunks) :
              ~Untouched(processedInfo.chunks[i]))

\* C5: every selected unit is a distinct unit of the Splitter for the same
\* raw diff, with its path, and with its body or a prefix of its body
\* followed by the truncation marker; there are at most totalFiles of them.
C5_Subset ==
    Processed =>
      /\ Len(processedInfo.chunks) <= processedInfo.totalFiles
      /\ \A i, j \in 1..Len(processedInfo.chunks) :
           i # j => processedInfo.chunks[i].section # processedInfo.chunks[j].section
      /\ \A i \in 1..Len(processedInfo.chunks) :
           \E k \in 1..Len(SplitterUnits) :
             /\ SplitterUnits[k].section = processedInfo.chunks[i].section
             /\ SplitterUnits[k].filePath = processedInfo.chunks[i].filePath
             /\ \/ processedInfo.chunks[i].content = SplitterUnits[k].content
                \/ IsMarkedPrefix(processedInfo.chunks[i].content,
                                  SplitterUnits[k].content)

\* a copy truncated by the Budgeter is selected next to a whole unit
C5_Witness ==
    /\ C2_Witness
    /\ Len(processedInfo.chunks) > 1

\* C6: under the direct strategy the payload is the raw input, the
\* processor is not run, processedSize = originalSize = the raw length and
\* wasTruncated is false.
C6_Direct ==
    (pc \in {"awaiting", "returned"} /\ processingStrategy = "direct") =>
      /\ processedDiff.form = "raw"
      /\ processedDiff.raw = gitDiff
      /\ processedInfo = Null
      /\ pc = "returned" =>
           /\ outcome.processingInfo.originalSize = RawLen(gitDiff)
           /\ outcome.processingInfo.processedSize = RawLen(gitDiff)
           /\ ~outcome.processingInfo.wasTruncated

\* a direct run of an input with leading whitespace and a header
C6_Witness ==
    /\ pc = "returned"
    /\ outcome.processingInfo.processingStrategy = "direct"
    /\ Len(gitDiff) > 1
    /\ Section(gitDiff[1]).blank

\* the processor options with another total budget
WithMaxTotalSize(m) ==
    [options.processor EXCEPT !.maxTotalSize = OrElse(m, ServiceMaxTotalSize)]

\* C7: totalFiles is the number of units of the Splitter, totalLinesAdded
\* and totalLinesDeleted are the sums over all of them, dropped ones
\* included, and none of the three depends on maxTotalSize.
C7_Totals ==
    Processed =>
      /\ processedInfo.totalFiles = Len(SplitterUnits)
      /\ processedInfo.totalLinesAdded =
           SumSeq([k \in 1..Len(SplitterUnits) |-> SplitterUnits[k].linesAdded])
      /\ processedInfo.totalLinesDeleted =
           SumSeq([k \in 1..Len(SplitterUnits) |-> SplitterUnits[k].linesDeleted])
      /\ \A m \in MaxTotalChoices :
           \E other \in {ProcessDiff(gitDiff, WithMaxTotalSize(m))} :
             /\ other.totalFiles = processedInfo.totalFiles
             /\ other.totalLinesAdded = processedInfo.totalLinesAdded
             /\ other.totalLinesDeleted = processedInfo.totalLinesDeleted

\* the Budgeter dropped a unit
C7_Witness ==
    /\ Processed
    /\ Len(processedInfo.chunks) < Len(SplitterUnits)
    /\ processedInfo.totalLinesAdded > 0

\* C8: under each strategy the reported totalFiles is the number of units
\* the Splitter yields for the raw diff.
C8_TotalFiles ==
    pc = "returned" =>
      outcome.processingInfo.totalFiles = Len(SplitterUnits)

\* C9: filesAnalyzed is the number of units whose content is in the
\* payload (the excerpted units under summarized, the selected units under
\* chunked, 0 when none), and processedSize is the length of the payload.
C9_FilesAnalyzed ==
    (pc = "returned" /\ processingStrategy # "direct") =>
      /\ outcome.processingInfo.filesAnalyzed = Len(processedDiff.files)
      /\ outcome.processingInfo.processedSize = PayloadLen(processedDiff)

\* the input is empty, whitespace only, or has no file header and no hunk
\* header
InvalidInput(d) ==
    \/ d = <<>>
    \/ \A i \in 1..Len(d) : Section(d[i]).blank
    \/ \A i \in 1..Len(d) :
         Section(d[i]).hdr = "none" /\ ~Section(d[i]).hunkHdr

\* C10: an empty, whitespace-only or marker-free input fails with an
\* invalid-diff error before any processing and before any call of the
\* generation service.
C10_InvalidRejected ==
    (pc # "idle" /\ InvalidInput(gitDiff)) =>
      /\ pc = "thrown"
      /\ SubSeq(outcome.error, 1, 16) = "Invalid git diff"
      /\ processedInfo = Null
      /\ processedDiff = Null
      /\ apiCalls = 0

\* prose without diff markers was rejected
C10_Witness ==
    /\ pc = "thrown"
    /\ gitDiff = <<"prose">>
    /\ apiCalls = 0

\* the arguments with which parseFileChunk calls calculatePriority
SameArguments(a, b) ==
    /\ a.filePath = b.filePath
    /\ a.changeType = b.changeType
    /\ a.linesAdded = b.linesAdded
    /\ a.linesDeleted = b.linesDeleted

\* C11: whatever the path, the change kind and the numbers of added and
\* deleted lines, the score of a unit is an integer from 1 to 5, and two
\* units scored with the same arguments have the same score.
C11_ScoreRange ==
    pc = "returned" =>
        \A i \in 1..Len(SplitterUnits) :
            /\ SplitterUnits[i].priority \in MinPriority..MaxPriority
            /\ \A j \in 1..Len(SplitterUnits) :
                 SameArguments(SplitterUnits[i], SplitterUnits[j])
                 => SplitterUnits[i].priority = SplitterUnits[j].priority

\* a unit whose adjustments sum below 1 has been scored
C11_Witness ==
    /\ pc = "returned"
    /\ \E i \in 1..Len(SplitterUnits) :
         /\ SplitterUnits[i].filePath = "node_modules/lib/test/util.css"
         /\ SplitterUnits[i].changeType = "modified"
         /\ SplitterUnits[i].linesAdded + SplitterUnits[i].linesDeleted
            < SmallChange
         /\ SplitterUnits[i].priority = MinPriority

\* The terms of the score as the specification names them
HighSignalGroups ==
    {{"package.json", "Cargo.toml"}, {"README", "CHANGELOG"},
     {".config", "Dockerfile"}}
SourceExtensions == {".ts", ".js", ".py", ".rs", ".go", ".java", ".cpp", ".c"}
TestMarkers == {"test", "spec", "__tests__", ".test."}
GeneratedMarkers == {"node_modules", "dist/", "build/", ".min."}

MatchesAny(path, patterns) == \E p \in patterns : Includes(path, p)

Indicator(b) == IF b THEN 1 ELSE 0

\* the number of high-signal groups of which the path matches a pattern
GroupsMatched(path) ==
    Cardinality({G \in HighSignalGroups : MatchesAny(path, G)})

\* clamp(3 + h + s - t - 2g + z + k, 1, 5) for a unit and a value of h
Formula(unit, h) ==
    LET s == Indicator(\E e \in SourceExtensions : EndsWith(unit.filePath, e))
        t == Indicator(MatchesAny(unit.filePath, TestMarkers))
        g == Indicator(MatchesAny(unit.filePath, GeneratedMarkers))
        total == unit.linesAdded + unit.linesDeleted
        z == IF total > 100 THEN 1 ELSE IF total < 5 THEN -1 ELSE 0
        k == Indicator(unit.changeType \in {"added", "deleted"})
        sum == 3 + h + s - t - 2 * g + z + k
    IN IF sum < 1 THEN 1 ELSE IF sum > 5 THEN 5 ELSE sum

\* C12 as stated: the score of every unit is clamp(3 + h + s - t - 2g + z
\* + k, 1, 5) with h = 1 when the path matches the high-signal set, a
\* single point however many of its groups match.
C12_SingleBoost ==
    pc = "returned" =>
        \A i \in 1..Len(SplitterUnits) :
            SplitterUnits[i].priority =
                Formula(SplitterUnits[i],
                        Indicator(GroupsMatched(SplitterUnits[i].filePath) > 0))

\* C12: the score of every unit is clamp(3 + h + s - t - 2g + z + k, 1, 5)
\* where h is the number of high-signal groups (dependency manifest,
\* README/CHANGELOG, Dockerfile/.config) that the path matches, one point
\* for each group, and s, t, g, z, k are applied once each.
C12_ScoreFormula ==
    pc = "returned" =>
        \A i \in 1..Len(SplitterUnits) :
            SplitterUnits[i].priority =
                Formula(SplitterUnits[i],
                        GroupsMatched(SplitterUnits[i].filePath))

\* a unit whose path matches two groups has been scored, without clamping
C12_Witness ==
    /\ pc = "returned"
    /\ \E i \in 1..Len(SplitterUnits) :
         /\ GroupsMatched(SplitterUnits[i].filePath) = 2
         /\ SplitterUnits[i].changeType = "renamed"
         /\ SplitterUnits[i].linesAdded + SplitterUnits[i].linesDeleted = 60
         /\ SplitterUnits[i].priority = 5

\* Direct < Chunked < Summarized
Rank(strategy) ==
    CASE strategy = "direct" -> 1
      [] strategy = "chunked" -> 2
      [] strategy = "summarized" -> 3

\* the strategy the service of the current configuration takes for d
StrategyOf(d) == Prepare(d, options).processingStrategy

\* C13: with the configuration fixed, a valid raw diff at least as long
\* as the raw diff of the current call never gets an earlier strategy, in
\* the order Direct < Chunked < Summarized, than the current call got.
C13_Monotonic ==
    pc = "awaiting" =>
        \A B \in RawDiffs :
            (ValidateGitDiff(B, ValidationMaxSize).isValid
             /\ RawLen(gitDiff) <= RawLen(B))
            => Rank(processingStrategy) <= Rank(StrategyOf(B))

\* The units of every file section of the raw diff: the split without
\* the limit on the number of files.
AllUnits ==
    SplitIntoChunks(gitDiff,
                    [options.processor EXCEPT !.maxFiles = Len(gitDiff) + 1])

\* C14: when the raw diff has more file sections than maxFiles, the
\* result of processDiff still reports the true totals: totalFiles,
\* totalLinesAdded, totalLinesDeleted and the summary count every file
\* section of the raw diff, not only the first maxFiles.
C14_TrueTotals ==
    (pc = "returned" /\ Len(AllUnits) > options.processor.maxFiles) =>
        /\ processedInfo.totalFiles = Len(AllUnits)
        /\ processedInfo.totalLinesAdded = TotalLinesAdded(AllUnits)
        /\ processedInfo.totalLinesDeleted = TotalLinesDeleted(AllUnits)
        /\ processedInfo.summary = GenerateSummary(AllUnits)

\* C15: with summarization enabled, a valid raw diff longer than
\* maxTotalSize, itself above maxDirectSize, is processed with the
\* summarized strategy, whatever the number and sizes of its sections.
C15_FarAboveBudget ==
    (/\ pc = "awaiting"
     /\ options.enableSummarization
     /\ RawLen(gitDiff) > options.processor.maxTotalSize
     /\ options.processor.maxTotalSize > options.maxDirectSize)
    => processingStrategy = "summarized"

\* the raw diff of the call has just the two file sections package.json
\* and foo.test.ts, and the file limit admits both
ManifestAndTest ==
    /\ pc = "returned"
    /\ gitDiff \in ManifestAndTestDiffs
    /\ options.processor.maxFiles >= 2

\* package.json comes first of the two selected units
ManifestFirst ==
    /\ Len(processedInfo.chunks) = 2
    /\ processedInfo.chunks[1].filePath = "package.json"
    /\ processedInfo.chunks[2].filePath = "foo.test.ts"

\* the size adjustment of a unit: -1, 0 or +1
SizeBand(unit) ==
    IF unit.linesAdded + unit.linesDeleted > LargeChange THEN 1
    ELSE IF unit.linesAdded + unit.linesDeleted < SmallChange THEN -1 ELSE 0

\* C16 as stated: for a diff of package.json and foo.test.ts, both small,
\* processDiff selects both with package.json first, for either order in
\* the raw diff and every combination of change kinds and line counts.
C16_ManifestFirstAlways == ManifestAndTest => ManifestFirst

\* C16: for a diff of package.json and foo.test.ts, both small,
\* processDiff selects both, for either order in the raw diff and every
\* combination of change kinds and line counts; package.json comes first
\* when the two sections have the same change kind and the same size
\* adjustment.
C16_ManifestFirst ==
    ManifestAndTest =>
        /\ Len(processedInfo.chunks) = 2
        /\ {processedInfo.chunks[i].filePath : i \in 1..2}
           = {"package.json", "foo.test.ts"}
        /\ (/\ SplitterUnits[1].changeType = SplitterUnits[2].changeType
            /\ SizeBand(SplitterUnits[1]) = SizeBand(SplitterUnits[2]))
           => ManifestFirst

\* foo.test.ts comes first in the raw diff, with the same kind and size
\* adjustment as package.json, and package.json is selected first
C16_Witness ==
    /\ ManifestAndTest
    /\ SplitterUnits[1].filePath = "foo.test.ts"
    /\ SplitterUnits[1].changeType = SplitterUnits[2].changeType
    /\ SizeBand(SplitterUnits[1]) = SizeBand(SplitterUnits[2])
    /\ SplitterUnits[1].linesAdded # SplitterUnits[2].linesAdded
    /\ ManifestFirst

\* the form of payload each strategy renders
FormOf(strategy) ==
    CASE strategy = "direct" -> "raw"
      [] strategy = "chunked" -> "chunked"
      [] strategy = "summarized" -> "summarized"
      [] OTHER -> "none"

\* C17: for every input that passes validation, whatever its size and
\* the sizes of its sections, strategy selection and processDiff yield
\* exactly one of the three strategies and the payload of that strategy,
\* with which the call reaches the completion request; a call on valid
\* input is only ever thrown out after that request, never by splitting,
\* scoring, budgeting or rendering.
C17_NoTooLarge ==
    /\ pc = "idle" =>
         \A d \in RawDiffs :
            ValidateGitDiff(d, ValidationMaxSize).isValid =>
                \E prepared \in {Prepare(d, options)} :
                    /\ prepared.processingStrategy
                       \in {"direct", "chunked", "summarized"}
                    /\ prepared.processedDiff.form
                       = FormOf(prepared.processingStrategy)
    /\ pc = "awaiting" =>
         /\ processingStrategy \in {"direct", "chunked", "summarized"}
         /\ processedDiff # Null
         /\ processedDiff.form = FormOf(processingStrategy)
         /\ PayloadLen(processedDiff) > 0
    /\ (pc = "thrown" /\ ValidateGitDiff(gitDiff, ValidationMaxSize).isValid)
         => apiCalls = 1

\* a valid raw diff above the budget, from which a unit was dropped, has
\* reached the completion request
C17_Witness ==
    /\ pc = "awaiting"
    /\ processedInfo # Null
    /\ RawLen(gitDiff) > options.processor.maxTotalSize
    /\ processedInfo.isTruncated
    /\ \E i \in 1..Len(processedInfo.chunks) :
         processedInfo.chunks[i].content.tail # <<>>

\* C18: processDiff called directly on a text with no 'diff --git' file
\* header line and no '@@' hunk header fails with a malformed-diff error;
\* it does not return a result with zero units.
C18_SplitterVerifies ==
    (/\ pc = "returned"
     /\ ~TrimmedEmpty(gitDiff)
     /\ ~HasGitDiffHeader(gitDiff)
     /\ ~HasHunkHeaders(gitDiff))
    => /\ processedInfo = Null
       /\ outcome # Null

NoUnitReturned ==
    /\ pc = "returned"
    /\ RawLen(gitDiff) > options.maxDirectSize
    /\ SplitterUnits = <<>>

\* invocation c holds what its raw diff gets when run alone
AsAlone(c, alone) ==
    /\ processingStrategy[c] = alone.processingStrategy
    /\ processedInfo[c] = alone.processedInfo
    /\ pc[c] # "summarizing" => processedDiff[c] = alone.processedDiff
    /\ pc[c] = "returned" =>
         outcome[c].processingInfo =
             ProcessingInfo(gitDiff[c], alone.processingStrategy,
                            alone.processedDiff, alone.processedInfo)

\* C20: the engine keeps no state between calls: whatever invocations
\* run on the same service, one after another or interleaved at their
\* awaits, each holds and returns the strategy, the selected units, the
\* summary, the totals and the truncation flag that its raw diff gets
\* when run alone under the same configuration.
C20_NoSharedState ==
    \A c \in Calls :
        pc[c] \in {"summarizing", "awaiting", "returned"} =>
            AsAlone(c, Prepare(gitDiff[c], options))

\* two invocations on different raw diffs are in flight together, the
\* first suspended at the await of its summary
C20_Witness ==
    /\ pc[1] = "summarizing"
    /\ pc[2] = "awaiting"
    /\ gitDiff[1] # gitDiff[2]
    /\ processingStrategy[2] = "chunked"
    /\ processedInfo[1] # processedInfo[2]

\* the Splitter units of the current call in priority order
Ordered == PrioritizeChunks(SplitterUnits)

\* the total body length of the first k of the units
SizeOfFirst(units, k) ==
    SumSeq([i \in 1..k |-> ContentLen(units[i].content)])

\* the number of leading units that fit the budget whole
WholeCount(units, budget) ==
    Max({k \in 0..Len(units) : SizeOfFirst(units, k) <= budget})

\* selected is the first k ordered units whole, followed, when a unit
\* remains and more than 1000 characters of budget are left, by a copy of
\* the next unit cut to the remaining space less the reserve, plus the
\* marker, and by nothing else
GreedyFrom(units, selected, k, budget) ==
    IF k = Len(units) THEN selected = units
    ELSE IF budget - SizeOfFirst(units, k) > 1000
    THEN /\ Len(selected) = k + 1
         /\ SubSeq(selected, 1, k) = SubSeq(units, 1, k)
         /\ selected[k + 1] =
              [units[k + 1] EXCEPT !.content =
                 WithMarker(Substring(units[k + 1].content,
                                      budget - SizeOfFirst(units, k) - 100))]
    ELSE selected = SubSeq(units, 1, k)

\* C21: the Budgeter walks the units in priority order and stops at the
\* first unit whose whole body does not fit the remaining budget: it
\* appends a truncated copy of that unit iff the remaining space is
\* greater than 1000, and examines no later unit; selected is a prefix of
\* the priority order with at most its last element truncated.
C21_Greedy ==
    Processed =>
        GreedyFrom(Ordered, processedInfo.chunks,
                   WholeCount(Ordered, options.processor.maxTotalSize),
                   options.processor.maxTotalSize)

\* the first unit overflows with too little space for a copy, and the
\* next unit, which would fit, is not admitted
C21_Witness ==
    /\ Processed
    /\ Len(Ordered) = 2
    /\ processedInfo.chunks = <<>>
    /\ options.processor.maxTotalSize <= 1000
    /\ ContentLen(Ordered[2].content) <= options.processor.maxTotalSize

\* the file section from which a unit was parsed
SectionOf(unit) == Section(gitDiff[unit.section])

\* the unit comes from a file section longer than maxChunkSize
CutBySplitter(unit) == SectionOf(unit).len > options.processor.maxChunkSize

\* the last of the positions at or before the limit, -1 if there is none
LastAtOrBefore(positions, limit) ==
    IF {q \in positions : q <= limit} = {} THEN -1
    ELSE Max({q \in positions : q <= limit})

\* the body is the first `cut` characters of the section and the marker
CutAt(unit, cut) == unit.content = [orig |-> cut, tail |-> <<MarkerLen>>]

\* C22 as stated: a file section longer than maxChunkSize is cut at the
\* last hunk header at or before maxChunkSize - reserve whenever there is
\* one, otherwise at the last newline at or before that point, and the
\* marker is appended; the cut is always on a line boundary.
C22_CutOnLineBoundary ==
    pc = "returned" =>
        \A i \in 1..Len(SplitterUnits) :
            CutBySplitter(SplitterUnits[i]) =>
                \E s \in {SectionOf(SplitterUnits[i])} :
                \E limit \in {options.processor.maxChunkSize - 100} :
                    /\ CutAt(SplitterUnits[i],
                             IF LastAtOrBefore(s.hunk, limit) >= 0
                             THEN LastAtOrBefore(s.hunk, limit)
                             ELSE LastAtOrBefore(s.nl, limit))
                    /\ SplitterUnits[i].content.orig \in s.nl

\* C22: a file section longer than maxChunkSize is cut, with limit =
\* maxChunkSize - 100, at the last hunk header at or before the limit when
\* its index is above 0.7 * limit, otherwise at the last newline at or
\* before the limit when its index is above 0.8 * limit, otherwise at the
\* limit itself, which can be in the middle of a line; then the marker is
\* appended.
C22_CutPoint ==
    pc = "returned" =>
        \A i \in 1..Len(SplitterUnits) :
            CutBySplitter(SplitterUnits[i]) =>
                \E s \in {SectionOf(SplitterUnits[i])} :
                \E limit \in {options.processor.maxChunkSize - 100} :
                    CutAt(SplitterUnits[i],
                          IF 10 * LastAtOrBefore(s.hunk, limit) > 7 * limit
                          THEN LastAtOrBefore(s.hunk, limit)
                          ELSE IF 10 * LastAtOrBefore(s.nl, limit) > 8 * limit
                          THEN LastAtOrBefore(s.nl, limit)
                          ELSE limit)

\* a section has been cut in the middle of a line although a hunk header
\* and newlines lie before the limit
C22_Witness ==
    /\ pc = "returned"
    /\ \E i \in 1..Len(SplitterUnits) :
         /\ CutBySplitter(SplitterUnits[i])
         /\ SplitterUnits[i].content.orig \notin SectionOf(SplitterUnits[i]).nl
         /\ LastAtOrBefore(SectionOf(SplitterUnits[i]).hunk,
                           options.processor.maxChunkSize - 100) >= 0

\* the length of the header line 'diff --git a/<path> b/<path>'
HeaderLineLen(unit) == 16 + 2 * Len(unit.filePath)

\* the body holds the whole header line of its file section and is that
\* section, or a prefix of it followed by the truncation marker
TailTruncated(unit) ==
    /\ unit.content.orig >= HeaderLineLen(unit)
    /\ \/ Untouched(unit)
       \/ IsMarkedPrefix(unit.content, Content(SectionOf(unit).len))

\* C23: for every configuration, the body of every unit of the Splitter
\* and of every selected unit still contains the unit's complete
\* 'diff --git' header line, and a truncated body is a prefix of the file
\* section followed by the truncation marker.
C23_HeaderKept ==
    Processed =>
        /\ \A i \in 1..Len(SplitterUnits) : TailTruncated(SplitterUnits[i])
        /\ \A i \in 1..Len(processedInfo.chunks) :
             TailTruncated(processedInfo.chunks[i])

\* the sections of the raw diff that start with a header line carrying
\* the two paths
Parseable == {i \in 1..Len(gitDiff) : Section(gitDiff[i]).hdr = "ok"}

Min(a, b) == IF a < b THEN a ELSE b

\* C24: the Splitter returns at most maxFiles units, and they are the
\* first maxFiles parseable file sections in the order of the raw diff;
\* the text before the first file header and the later file sections
\* yield no unit.
C24_FirstMaxFiles ==
    pc = "returned" =>
        \E units \in {SplitterUnits} :
            /\ Len(units) = Min(options.processor.maxFiles,
                                Cardinality(Parseable))
            /\ \A k \in 1..Len(units) :
                 /\ units[k].section \in Parseable
                 /\ Cardinality({i \in Parseable : i < units[k].section})
                    = k - 1
                 /\ units[k].filePath = SectionOf(units[k]).path

\* a raw diff with more parseable file sections than maxFiles has been
\* split
C24_Witness ==
    /\ pc = "returned"
    /\ Cardinality(Parseable) > options.processor.maxFiles
    /\ Len(SplitterUnits) = options.processor.maxFiles
    /\ Len(processedInfo.chunks) = options.processor.maxFiles

\* the selected unit has the path, kind, line counts and priority of the
\* Splitter unit of its section, and the line counts of the whole section
SameMetadata(selected, units) ==
    \E k \in 1..Len(units) :
        /\ units[k].section = selected.section
        /\ [selected EXCEPT !.content = units[k].content] = units[k]
        /\ selected.linesAdded = SectionOf(selected).plus
        /\ selected.linesDeleted = SectionOf(selected).minus

\* C25: every selected unit carries the path, kind, linesAdded,
\* linesDeleted and priority that the Splitter assigned to it, also when
\* its body was truncated by the Splitter or by the Budgeter; the line
\* counts are those of the untruncated file section.
C25_MetadataKept ==
    Processed =>
        \E units \in {SplitterUnits} :
            \A i \in 1..Len(processedInfo.chunks) :
                SameMetadata(processedInfo.chunks[i], units)

\* a unit with changed lines has been selected as a copy truncated by the
\* Budgeter
C25_Witness ==
    /\ Processed
    /\ \E i \in 1..Len(processedInfo.chunks) :
         /\ processedInfo.chunks[i].linesAdded > 100
         /\ processedInfo.chunks[i].priority = 5
         /\ \E k \in 1..Len(SplitterUnits) :
              /\ SplitterUnits[k].section = processedInfo.chunks[i].section
              /\ SplitterUnits[k].content # processedInfo.chunks[i].content
              /\ Untouched(SplitterUnits[k])

\* the call goes on with the summarized payload
Summarized == Processed /\ processingStrategy = "summarized"

\* the positions of the units of priority 4 or more
Qualifying(chunks) == {i \in 1..Len(chunks) : chunks[i].priority >= ImportantPriority}

\* file is the excerpt of chunk: its path, then the first 2000 characters
\* of its body, then '...'
ExcerptOf(file, chunk) ==
    /\ file.label = chunk.filePath \o ":\n"
    /\ IsPrefix(file.content, chunk.content)
    /\ ContentLen(file.content) = Min(ExcerptLength, ContentLen(chunk.content))
    /\ file.suffix = "..."

\* C26: the Summarized payload holds body excerpts only for units of
\* priority 4 or more, for at most five of them, the first such in
\* selected order, each the first 2000 characters of the unit's body at
\* most; no unit of priority 3 or lower is excerpted.
C26_Excerpts ==
    Summarized =>
        \E chunks \in {processedInfo.chunks} :
        \E files \in {processedDiff.files} :
            /\ Len(files) = Min(MaxImportantFiles,
                                Cardinality(Qualifying(chunks)))
            /\ \A k \in 1..Len(files) :
                 \E i \in Qualifying(chunks) :
                    /\ Cardinality({j \in Qualifying(chunks) : j < i}) = k - 1
                    /\ ExcerptOf(files[k], chunks[i])

\* six selected units qualify and five are excerpted, and a selected unit
\* of lower priority is not
C26_Witness ==
    /\ Summarized
    /\ Cardinality(Qualifying(processedInfo.chunks)) > MaxImportantFiles
    /\ Len(processedDiff.files) = MaxImportantFiles
    /\ \E i \in 1..Len(processedInfo.chunks) :
         processedInfo.chunks[i].priority < ImportantPriority

\* the entry of a unit in the file list of the Summarized payload
FileListEntry(chunk) ==
    chunk.filePath \o ": " \o chunk.changeType \o " (+"
    \o ToString(chunk.linesAdded) \o "/-" \o ToString(chunk.linesDeleted)
    \o ")"

\* the file list, between its heading and the heading of the excerpts,
\* has the entry as one of its lines
Listed(head, entry) == Includes(head, "\n" \o entry \o "\n")

\* C27: the file list of the Summarized payload has one entry
\* 'path: kind (+added/-deleted)' for every unit that the Splitter
\* produced, the units that the Budgeter dropped included.
C27_EveryUnitListed ==
    Summarized =>
        \A k \in 1..Len(SplitterUnits) :
            Listed(processedDiff.head, FileListEntry(SplitterUnits[k]))

\* linesAdded + linesDeleted
TotalChanges(unit) == unit.linesAdded + unit.linesDeleted

\* the score of a unit with the path and the change kind of the given
\* unit, and the given numbers of lines
Rescored(unit, linesAdded, linesDeleted) ==
    [unit EXCEPT !.linesAdded = linesAdded, !.linesDeleted = linesDeleted,
                 !.priority = CalculatePriority(unit.filePath, unit.changeType,
                                                linesAdded, linesDeleted)]

\* the units with the path and the change kind of the unit, for every size
\* of the change
SameFileUnits(unit) ==
    {Rescored(unit, a, m) : a \in PlusChoices, m \in MinusChoices}

\* C28: the score is monotonic in the size of the change: for two units of
\* the same path and the same kind, the one with no more lines added plus
\* deleted has no higher score.
C28_MonotonicInSize ==
    pc = "returned" =>
        \E units \in {SplitterUnits} :
            \A i \in 1..Len(units) :
                \A u \in SameFileUnits(units[i]) :
                    /\ TotalChanges(units[i]) <= TotalChanges(u)
                       => units[i].priority <= u.priority
                    /\ TotalChanges(u) <= TotalChanges(units[i])
                       => u.priority <= units[i].priority

\* a unit of fewer than 5 changed lines has been scored two points below a
\* unit of the same path and kind with more than 100
C28_Witness ==
    /\ pc = "returned"
    /\ \E i \in 1..Len(SplitterUnits) :
         /\ TotalChanges(SplitterUnits[i]) < SmallChange
         /\ \E v \in SameFileUnits(SplitterUnits[i]) :
              /\ TotalChanges(v) > LargeChange
              /\ v.priority = SplitterUnits[i].priority + 2

\* C29: for every raw diff and every positive maxChunkSize, the body of
\* each unit that the Splitter returns, the truncation marker included,
\* has at most maxChunkSize characters.
C29_BodyWithinChunkSize ==
    Processed =>
        \E units \in {SplitterUnits} :
            \A k \in 1..Len(units) :
                ContentLen(units[k].content) <= options.processor.maxChunkSize

====
